---------------------------- MODULE Spec2Model ----------------------------
(***************************************************************************)
(* A model of src/bin/homework_one.rs: the 8086 MOV disassembler.          *)
(*                                                                         *)
(* The program opens the input file, prints two header lines and then      *)
(* loops: it takes one byte from the byte iterator, classifies it by its   *)
(* top six bits and hands it to one of three decoders, each of which takes *)
(* the further bytes its encoding needs and prints one line.  A missing    *)
(* byte (`.next().unwrap()` on None), an unknown opcode (`panic!`), the    *)
(* register-direct form of immediate-to-register/memory (`todo!`) and, in  *)
(* a build with overflow checks, the negation of the most negative         *)
(* displacement all panic.                                                 *)
(*                                                                         *)
(* Offsets are 0-based as in the source: the byte at offset i is           *)
(* buffer[i + 1], and cursor is the number of bytes taken so far.          *)
(***************************************************************************)
EXTENDS Integers, Sequences, FiniteSets, TLC

VARIABLES
    input,            \* args.input: the path given on the command line
    file_exists,      \* whether File::open(&args.input) is Ok
    buffer,           \* the bytes of the file
    overflow_checks,  \* the build: TRUE for a debug build, FALSE for --release
    cursor,           \* bytes taken from `bytes` so far
    insn_start,       \* the index Enumerate yields with byte_one
    output,           \* the lines printed to standard output
    status,           \* "start", "loop", "exited" or "panicked"
    panic             \* the panic that ended the process, or "none"

vars == <<input, file_exists, buffer, overflow_checks, cursor, insn_start,
          output, status, panic>>

-----------------------------------------------------------------------------
(* Bounds of the model *)

\* The longest input file.
MaxLen == 5

\* The bytes an input file is made of: a first byte for each family, a
\* secondary byte for each addressing mode, and data bytes on both sides of
\* the sign bit.  Most bytes serve in several roles.
\*   00  unsupported opcode | mod 00 r/m 000         | data 0
\*   06  unsupported opcode | mod 00 r/m 110         | data 6
\*   41  unsupported opcode | mod 01 reg 000 r/m 001 | data 65
\*   80  unsupported opcode | mod 10 reg 000 r/m 000 | data 128 (-128)
\*   88  reg/mem to/from reg, D = 0, W = 0 | mod 10  | data 136 (-120)
\*   8B  reg/mem to/from reg, D = 1, W = 1 | mod 10  | data 139 (-117)
\*   B8  imm to reg, W = 1, reg 000        | mod 10  | data 184 (-72)
\*   C6  imm to reg/mem, W = 0             | mod 11  | data 198 (-58)
\*   DB  unsupported opcode | mod 11 reg 011 r/m 011 | data 219 (-37)
ByteAlphabet == {0, 6, 65, 128, 136, 139, 184, 198, 219}

Buffers == UNION {[1..n -> ByteAlphabet] : n \in 0..MaxLen}

InputNames == {"listing_0039"}

-----------------------------------------------------------------------------
(* Masks and mode codes *)

OPCODE == 252
D == 2
W == 1
MOD == 192
REG == 56
R_M == 7
MOD_MM_NO_DISP == 0
MOD_MM_8_BIT_DISP == 1
MOD_MM_16_BIT_DISP == 2
MOD_RM_NO_DISP == 3

-----------------------------------------------------------------------------
(* Machine arithmetic *)

RECURSIVE BitAnd(_, _)
\* a & b on non-negative integers.
BitAnd(a, b) ==
    IF a = 0 \/ b = 0 THEN 0
    ELSE (IF a % 2 = 1 /\ b % 2 = 1 THEN 1 ELSE 0)
         + 2 * BitAnd(a \div 2, b \div 2)

RECURSIVE BitOr(_, _)
\* a | b on non-negative integers.
BitOr(a, b) ==
    IF a = 0 THEN b
    ELSE IF b = 0 THEN a
    ELSE (IF a % 2 = 1 \/ b % 2 = 1 THEN 1 ELSE 0)
         + 2 * BitOr(a \div 2, b \div 2)

RECURSIVE Shr(_, _)
\* a >> n on a u8.
Shr(a, n) == IF n = 0 THEN a ELSE Shr(a \div 2, n - 1)

\* The 16 bits of an i16, as a number in 0..65535.
BitsOfI16(v) == v % 65536

\* The i16 whose 16 bits are u.
I16OfBits(u) == IF u >= 32768 THEN u - 65536 ELSE u

\* `x as i16` for x: u8 (zero extension).
U8AsI16(b) == b

\* `x as i8` for x: u8 (same bits, read as two's complement).
U8AsI8(b) == IF b >= 128 THEN b - 256 ELSE b

\* `x as i16` for x: i8 (sign extension keeps the value).
I8AsI16(v) == v

\* `v << 8` on an i16: the bits shifted out are lost, no overflow check.
ShlI16(v) == I16OfBits((BitsOfI16(v) * 256) % 65536)

\* `a | b` on two i16.
BitOrI16(a, b) == I16OfBits(BitOr(BitsOfI16(a), BitsOfI16(b)))

\* `-v` on a signed integer of the given width.  Negating the minimum
\* overflows: a build with overflow checks panics ("attempt to negate with
\* overflow"), a build without them wraps to the minimum itself.
Neg(v, min) ==
    IF v = min
    THEN [overflow |-> TRUE, value |-> min]
    ELSE [overflow |-> FALSE, value |-> 0 - v]

-----------------------------------------------------------------------------
(* Display of integers, as `{}` formats them *)

Digit(d) ==
    CASE d = 0 -> "0" [] d = 1 -> "1" [] d = 2 -> "2" [] d = 3 -> "3"
      [] d = 4 -> "4" [] d = 5 -> "5" [] d = 6 -> "6" [] d = 7 -> "7"
      [] d = 8 -> "8" [] d = 9 -> "9"

RECURSIVE FmtNat(_)
FmtNat(n) == IF n < 10 THEN Digit(n) ELSE FmtNat(n \div 10) \o Digit(n % 10)

FmtInt(n) == IF n < 0 THEN "-" \o FmtNat(0 - n) ELSE FmtNat(n)

-----------------------------------------------------------------------------
(* The byte iterator *)

\* The byte `bytes.next()` yields when `pos` bytes have been taken.
ByteAt(pos) == buffer[pos + 1]

\* Whether the next n calls of `bytes.next()` all yield a byte.
Avail(pos, n) == pos + n <= Len(buffer)

\* How a decoder ends: it returned having printed `line`, or it panicked.
\* A `.next().unwrap()` that finds no byte panics once every remaining byte
\* has been taken, so the iterator is then at the end of the buffer.
Done(pos, line) == [panic |-> "none", cursor |-> pos, line |-> line]
Panicked(pos, why) == [panic |-> why, cursor |-> pos, line |-> ""]
UnwrapNone == Panicked(Len(buffer), "unwrap_none")

\* println!("MOV {dst}, {src}"): the first hole, a comma, the second hole.
Line(first, second) == "MOV " \o first \o ", " \o second

-----------------------------------------------------------------------------
(* Tables *)

GetReg(reg, is_word) ==
    IF is_word
    THEN CASE reg = 0 -> "AX" [] reg = 1 -> "CX" [] reg = 2 -> "DX"
           [] reg = 3 -> "BX" [] reg = 4 -> "SP" [] reg = 5 -> "BP"
           [] reg = 6 -> "SI" [] reg = 7 -> "DI"
    ELSE CASE reg = 0 -> "AL" [] reg = 1 -> "CL" [] reg = 2 -> "DL"
           [] reg = 3 -> "BL" [] reg = 4 -> "AH" [] reg = 5 -> "CH"
           [] reg = 6 -> "DH" [] reg = 7 -> "BH"

\* The operand of mode 00.  r/m 110 takes two more bytes, both cast
\* `as i16`, and prints their combination as an i16.
GetEffectiveAddress(r_m, pos) ==
    CASE r_m = 0 -> Done(pos, "[BX + SI]")
      [] r_m = 1 -> Done(pos, "[BX + DI]")
      [] r_m = 2 -> Done(pos, "[BP + SI]")
      [] r_m = 3 -> Done(pos, "[BP + DI]")
      [] r_m = 4 -> Done(pos, "[SI]")
      [] r_m = 5 -> Done(pos, "[DI]")
      [] r_m = 6 ->
            IF ~Avail(pos, 2) THEN UnwrapNone
            ELSE LET disp_lo == U8AsI16(ByteAt(pos))
                     disp_hi == U8AsI16(ByteAt(pos + 1))
                     disp == BitOrI16(ShlI16(disp_hi), disp_lo)
                 IN  Done(pos + 2, "[" \o FmtInt(disp) \o "]")
      [] r_m = 7 -> Done(pos, "[BX]")

\* A plausible slip in the table: rows 000 and 001 exchanged.
GetDispRegistersRowsSwapped(register_memory) ==
    CASE register_memory = 0 -> "BX + DI"
      [] register_memory = 1 -> "BX + SI"
      [] register_memory = 2 -> "BP + SI"
      [] register_memory = 3 -> "BP + DI"
      [] register_memory = 4 -> "SI"
      [] register_memory = 5 -> "DI"
      [] register_memory = 6 -> "BP"
      [] register_memory = 7 -> "BX"

GetDispRegisters(register_memory) ==
    CASE register_memory = 0 -> "BX + SI"
      [] register_memory = 1 -> "BX + DI"
      [] register_memory = 2 -> "BP + SI"
      [] register_memory = 3 -> "BP + DI"
      [] register_memory = 4 -> "SI"
      [] register_memory = 5 -> "DI"
      [] register_memory = 6 -> "BP"
      [] register_memory = 7 -> "BX"

\* get_disp_byte and get_disp_word share one body; only the width of
\* `displacement`, and so the value whose negation overflows, differs.
GetDisp(register, displacement, min) ==
    IF displacement = 0
    THEN [panic |-> "none", text |-> "[" \o register \o "]"]
    ELSE IF 0 < displacement
    THEN [panic |-> "none",
          text |-> "[" \o register \o " + " \o FmtInt(displacement) \o "]"]
    ELSE LET neg == Neg(displacement, min)
         IN  IF neg.overflow /\ overflow_checks
             THEN [panic |-> "negate_overflow", text |-> ""]
             ELSE [panic |-> "none",
                   text |-> "[" \o register \o " - " \o FmtInt(neg.value) \o "]"]

GetDispByte(register, displacement) == GetDisp(register, displacement, -128)

GetDispWord(register, displacement) == GetDisp(register, displacement, -32768)

-----------------------------------------------------------------------------
(* The decoders.  `pos` is the iterator's position on entry: byte_one has *)
(* been taken.                                                             *)

\* The register-or-memory operand of mov_reg_mem_to_from_reg, by mode.
RegMemOperand(byte_two, is_word, pos) ==
    LET mode == Shr(BitAnd(byte_two, MOD), 6)
        register_memory == BitAnd(byte_two, R_M)
    IN  CASE mode = MOD_MM_NO_DISP ->
               LET ea == GetEffectiveAddress(register_memory, pos)
               IN  [panic |-> ea.panic, cursor |-> ea.cursor, text |-> ea.line]
          [] mode = MOD_MM_8_BIT_DISP ->
               IF ~Avail(pos, 1)
               THEN [panic |-> "unwrap_none", cursor |-> Len(buffer), text |-> ""]
               ELSE LET disp == U8AsI8(ByteAt(pos))
                        m == GetDispByte(GetDispRegisters(register_memory), disp)
                    IN  [panic |-> m.panic, cursor |-> pos + 1, text |-> m.text]
          [] mode = MOD_MM_16_BIT_DISP ->
               IF ~Avail(pos, 2)
               THEN [panic |-> "unwrap_none", cursor |-> Len(buffer), text |-> ""]
               ELSE LET disp_lo == ByteAt(pos)
                        disp_hi == ByteAt(pos + 1)
                        disp == BitOrI16(ShlI16(U8AsI16(disp_hi)), U8AsI16(disp_lo))
                        m == GetDispWord(GetDispRegisters(register_memory), disp)
                    IN  [panic |-> m.panic, cursor |-> pos + 2, text |-> m.text]
          [] mode = MOD_RM_NO_DISP ->
               [panic |-> "none", cursor |-> pos,
                text |-> GetReg(register_memory, is_word)]

MovRegMemToFromReg(byte_one, pos) ==
    LET destination_in_reg == BitAnd(byte_one, D) = D
        is_word == BitAnd(byte_one, W) = W
    IN  IF ~Avail(pos, 1) THEN UnwrapNone
        ELSE LET byte_two == ByteAt(pos)
                 register == Shr(BitAnd(byte_two, REG), 3)
                 register_in_reg == GetReg(register, is_word)
                 rm == RegMemOperand(byte_two, is_word, pos + 1)
             IN  IF rm.panic # "none" THEN Panicked(rm.cursor, rm.panic)
                 ELSE IF destination_in_reg
                 THEN Done(rm.cursor, Line(register_in_reg, rm.text))
                 ELSE Done(rm.cursor, Line(rm.text, register_in_reg))

\* The value mov_imm_to_reg prints for the data bytes at `pos`.
ImmToRegValue(is_word, pos) ==
    IF is_word
    THEN LET lo == U8AsI16(ByteAt(pos))
             hi == U8AsI16(ByteAt(pos + 1))
         IN  BitOrI16(ShlI16(hi), lo)
    ELSE U8AsI16(ByteAt(pos))

\* The register is bound to `src` and the data to `dst`, and the line is
\* "MOV {dst}, {src}".
MovImmToReg(byte_one, pos) ==
    LET reg == BitAnd(byte_one, 7)
        is_word == BitAnd(byte_one, 8) = 8
        src == GetReg(reg, is_word)
        n == IF is_word THEN 2 ELSE 1
    IN  IF ~Avail(pos, n) THEN UnwrapNone
        ELSE LET dst == ImmToRegValue(is_word, pos)
             IN  Done(pos + n, Line(FmtInt(dst), src))

\* The data of mov_imm_to_r_m at `pos`, with its size qualifier: a word is
\* combined into an i16, a byte is printed as the u8 it is.
ImmToRMData(is_word, pos) ==
    IF is_word
    THEN LET lo == ByteAt(pos)
             hi == ByteAt(pos + 1)
         IN  "WORD " \o FmtInt(BitOrI16(ShlI16(U8AsI16(hi)), U8AsI16(lo)))
    ELSE "BYTE " \o FmtInt(ByteAt(pos))

\* The 16-bit displacement of mov_imm_to_r_m: both bytes are cast `as i8`
\* before they are widened.
ImmToRMDisp16(pos) ==
    LET disp_lo == U8AsI8(ByteAt(pos))
        disp_hi == U8AsI8(ByteAt(pos + 1))
    IN  BitOrI16(ShlI16(I8AsI16(disp_hi)), I8AsI16(disp_lo))

MovImmToRM(byte_one, pos) ==
    LET is_word == BitAnd(byte_one, W) = W
        n == IF is_word THEN 2 ELSE 1
    IN  IF ~Avail(pos, 1) THEN UnwrapNone
        ELSE LET byte_two == ByteAt(pos)
                 mode == Shr(BitAnd(byte_two, MOD), 6)
                 r_m == BitAnd(byte_two, R_M)
             IN  CASE mode = MOD_MM_NO_DISP ->
                        \* the data is taken first, the address after it
                        IF ~Avail(pos + 1, n) THEN UnwrapNone
                        ELSE LET src == ImmToRMData(is_word, pos + 1)
                                 dst == GetEffectiveAddress(r_m, pos + 1 + n)
                             IN  IF dst.panic # "none" THEN dst
                                 ELSE Done(dst.cursor, Line(dst.line, src))
                   [] mode = MOD_MM_8_BIT_DISP ->
                        IF ~Avail(pos + 1, 1) THEN UnwrapNone
                        ELSE LET disp == U8AsI8(ByteAt(pos + 1))
                                 dst == GetDispByte(GetDispRegisters(r_m), disp)
                             IN  IF dst.panic # "none"
                                 THEN Panicked(pos + 2, dst.panic)
                                 ELSE IF ~Avail(pos + 2, n) THEN UnwrapNone
                                 ELSE Done(pos + 2 + n,
                                           Line(dst.text, ImmToRMData(is_word, pos + 2)))
                   [] mode = MOD_MM_16_BIT_DISP ->
                        IF ~Avail(pos + 1, 2) THEN UnwrapNone
                        ELSE LET disp == ImmToRMDisp16(pos + 1)
                                 dst == GetDispWord(GetDispRegisters(r_m), disp)
                             IN  IF dst.panic # "none"
                                 THEN Panicked(pos + 3, dst.panic)
                                 ELSE IF ~Avail(pos + 3, n) THEN UnwrapNone
                                 ELSE Done(pos + 3 + n,
                                           Line(dst.text, ImmToRMData(is_word, pos + 3)))
                   [] mode = MOD_RM_NO_DISP -> Panicked(pos + 1, "todo")

-----------------------------------------------------------------------------
(* main *)

\* `(byte_one & OPCODE) >> 2`
Opcode(byte_one) == Shr(BitAnd(byte_one, OPCODE), 2)

IsRegMemToFromReg(opcode) == opcode = 34                 \* 0b100010
IsImmToReg(opcode) == opcode >= 44 /\ opcode <= 47       \* 0b1011_00..=0b1011_11
IsImmToRM(opcode) == opcode = 49                         \* 0b110001

Init ==
    /\ input \in InputNames
    /\ \/ file_exists = TRUE /\ buffer \in Buffers
       \/ file_exists = FALSE /\ buffer = <<>>
    /\ overflow_checks \in BOOLEAN
    /\ cursor = 0
    /\ insn_start = 0
    /\ output = <<>>
    /\ status = "start"
    /\ panic = "none"

\* File::open succeeds: the two header lines, then the loop.
MainOpen ==
    /\ status = "start"
    /\ file_exists
    /\ output' = <<"; " \o input, "bits 16">>
    /\ status' = "loop"
    /\ UNCHANGED <<input, file_exists, buffer, overflow_checks, cursor,
                   insn_start, panic>>

\* File::open fails: `if let Ok(file)` has no else, main returns.
MainOpenFails ==
    /\ status = "start"
    /\ ~file_exists
    /\ status' = "exited"
    /\ UNCHANGED <<input, file_exists, buffer, overflow_checks, cursor,
                   insn_start, output, panic>>

\* What one iteration of the `while let` does with its decoder's result.
Iterate(r) ==
    /\ insn_start' = cursor
    /\ cursor' = r.cursor
    /\ IF r.panic = "none"
       THEN /\ output' = Append(output, r.line)
            /\ status' = "loop"
            /\ panic' = "none"
       ELSE /\ output' = output
            /\ status' = "panicked"
            /\ panic' = r.panic
    /\ UNCHANGED <<input, file_exists, buffer, overflow_checks>>

\* 0b100010 => mov_reg_mem_to_from_reg(byte_one, &mut bytes)
DecodeRegMemToFromReg ==
    /\ status = "loop"
    /\ cursor < Len(buffer)
    /\ IsRegMemToFromReg(Opcode(ByteAt(cursor)))
    /\ Iterate(MovRegMemToFromReg(ByteAt(cursor), cursor + 1))

\* 0b1011_00..=0b1011_11 => mov_imm_to_reg(byte_one, &mut bytes)
DecodeImmToReg ==
    /\ status = "loop"
    /\ cursor < Len(buffer)
    /\ IsImmToReg(Opcode(ByteAt(cursor)))
    /\ Iterate(MovImmToReg(ByteAt(cursor), cursor + 1))

\* 0b110001 => mov_imm_to_r_m(byte_one, &mut bytes)
DecodeImmToRM ==
    /\ status = "loop"
    /\ cursor < Len(buffer)
    /\ IsImmToRM(Opcode(ByteAt(cursor)))
    /\ Iterate(MovImmToRM(ByteAt(cursor), cursor + 1))

\* The `_` arm of the match: panic!("Unsupported OPCODE {:b}!", opcode).
UnsupportedOpcode ==
    /\ status = "loop"
    /\ cursor < Len(buffer)
    /\ LET opcode == Opcode(ByteAt(cursor))
       IN  ~(IsRegMemToFromReg(opcode) \/ IsImmToReg(opcode) \/ IsImmToRM(opcode))
    /\ insn_start' = cursor
    /\ cursor' = cursor + 1
    /\ status' = "panicked"
    /\ panic' = "unsupported_opcode"
    /\ UNCHANGED <<input, file_exists, buffer, overflow_checks, output>>

\* `bytes.next()` yields None: the `while let` ends and main returns.
LoopExit ==
    /\ status = "loop"
    /\ cursor = Len(buffer)
    /\ status' = "exited"
    /\ UNCHANGED <<input, file_exists, buffer, overflow_checks, cursor,
                   insn_start, output, panic>>

Next ==
    \/ MainOpen
    \/ MainOpenFails
    \/ DecodeRegMemToFromReg
    \/ DecodeImmToReg
    \/ DecodeImmToRM
    \/ UnsupportedOpcode
    \/ LoopExit

Spec == Init /\ [][Next]_vars

-----------------------------------------------------------------------------
(* What the specification says of an encoding.  These definitions read the *)
(* bytes of `buffer` at an instruction's start offset p the way the        *)
(* specification's tables do; the program's operators above are not used.  *)

\* The family the top six bits of a first byte select, or "none".
SpecFamily(b) ==
    IF b \div 4 = 34 THEN "reg_mem"
    ELSE IF b \div 16 = 11 THEN "imm_reg"
    ELSE IF b \div 4 = 49 THEN "imm_rm"
    ELSE "none"

FamilyAt(p) == SpecFamily(buffer[p + 1])
HasSecond(p) == p + 2 <= Len(buffer)
ModeAt(p) == buffer[p + 2] \div 64
RegFieldAt(p) == (buffer[p + 2] \div 8) % 8
RmFieldAt(p) == buffer[p + 2] % 8

\* The width flag: bit 3 of an immediate-to-register first byte, bit 0 of
\* the others.
WideAt(p) ==
    IF FamilyAt(p) = "imm_reg"
    THEN (buffer[p + 1] \div 8) % 2 = 1
    ELSE buffer[p + 1] % 2 = 1

\* The direction flag: bit 1 of the first byte.
DirectionAt(p) == (buffer[p + 1] \div 2) % 2 = 1

\* Displacement or direct-address bytes after the secondary byte.
SpecDispBytes(p) ==
    CASE ModeAt(p) = 0 -> IF RmFieldAt(p) = 6 THEN 2 ELSE 0
      [] ModeAt(p) = 1 -> 1
      [] ModeAt(p) = 2 -> 2
      [] ModeAt(p) = 3 -> 0

SpecImmBytes(p) == IF WideAt(p) THEN 2 ELSE 1

\* The length of the encoding at p; for the two families with a secondary
\* byte it is defined once that byte is there.
SpecLen(p) ==
    CASE FamilyAt(p) = "imm_reg" -> 1 + SpecImmBytes(p)
      [] FamilyAt(p) = "reg_mem" -> 2 + SpecDispBytes(p)
      [] FamilyAt(p) = "imm_rm" -> 2 + SpecDispBytes(p) + SpecImmBytes(p)

\* Immediate-to-register/memory with register-direct addressing is not a
\* supported encoding.
SupportedAt(p) ==
    /\ FamilyAt(p) # "none"
    /\ FamilyAt(p) = "imm_rm" /\ HasSecond(p) => ModeAt(p) # 3

\* A whole supported instruction starts at p.
CompleteAt(p) ==
    /\ p < Len(buffer)
    /\ SupportedAt(p)
    /\ FamilyAt(p) # "imm_reg" => HasSecond(p)
    /\ p + SpecLen(p) <= Len(buffer)

\* A supported instruction starts at p and the buffer ends inside it.
TruncatedAt(p) ==
    /\ p < Len(buffer)
    /\ SupportedAt(p)
    /\ \/ FamilyAt(p) # "imm_reg" /\ ~HasSecond(p)
       \/ p + SpecLen(p) > Len(buffer)

\* The signed value of one byte, and of two bytes, low byte first.
Signed8(b) == IF b >= 128 THEN b - 256 ELSE b
Unsigned16(lo, hi) == lo + 256 * hi
Signed16(lo, hi) ==
    IF Unsigned16(lo, hi) >= 32768
    THEN Unsigned16(lo, hi) - 65536
    ELSE Unsigned16(lo, hi)

\* A memory operand with displacement d, as the rendering policy words it.
SpecDispText(base, d) ==
    IF d = 0 THEN "[" \o base \o "]"
    ELSE IF d > 0 THEN "[" \o base \o " + " \o FmtNat(d) \o "]"
    ELSE "[" \o base \o " - " \o FmtNat(0 - d) \o "]"

\* The last iteration of the loop started at insn_start and printed a line.
Emitted ==
    /\ cursor > insn_start
    /\ status \in {"loop", "exited"}

\* The last iteration of the loop started at insn_start (and may have
\* panicked).
Stepped == cursor > insn_start

LastLine == output[Len(output)]

-----------------------------------------------------------------------------
(* C1 *)

\* C1: when the buffer ends inside the instruction the last iteration
\* started on, the iteration ends in an error value handed back to the
\* driver, not in a panic, and the iterator is not past the buffer's end.
C1_TruncationIsAnErrorValue ==
    /\ cursor <= Len(buffer)
    /\ Stepped /\ TruncatedAt(insn_start) => status # "panicked"

-----------------------------------------------------------------------------
(* C2 *)

\* C2: a decode step on a whole supported instruction at p leaves the
\* cursor at p + L, L as the encoding's family, mode and width give it; the
\* cursor stays within 0..length and never decreases.
C2_CursorAdvance ==
    [][/\ cursor' >= cursor
       /\ 0 <= cursor' /\ cursor' <= Len(buffer')
       /\ status = "loop" /\ CompleteAt(cursor)
            => cursor' = cursor + SpecLen(cursor)]_vars

-----------------------------------------------------------------------------
(* C3 *)

\* The register-or-memory operand and the data of the instruction at p, as
\* the program renders them.
RegMemOperandAt(p) == RegMemOperand(buffer[p + 2], WideAt(p), p + 2).text
ImmToRegDataAt(p) == FmtInt(ImmToRegValue(WideAt(p), p + 1))
ImmToRMDstAt(p) ==
    CASE ModeAt(p) = 0 ->
           GetEffectiveAddress(RmFieldAt(p), p + 2 + SpecImmBytes(p)).line
      [] ModeAt(p) = 1 ->
           GetDispByte(GetDispRegisters(RmFieldAt(p)), U8AsI8(ByteAt(p + 2))).text
      [] ModeAt(p) = 2 ->
           GetDispWord(GetDispRegisters(RmFieldAt(p)), ImmToRMDisp16(p + 2)).text
ImmToRMSrcAt(p) ==
    ImmToRMData(WideAt(p), IF ModeAt(p) = 0 THEN p + 2 ELSE p + SpecLen(p) - SpecImmBytes(p))

\* C3: every emitted line is `MOV <destination>, <source>`.  Register/memory
\* to/from register: the register field's register is the destination when
\* the direction bit is set, the source when it is clear.  Immediate to
\* register: the destination is the register named by the low three bits of
\* the first byte, the source the immediate.  Immediate to register/memory:
\* the destination is the register-or-memory operand, the source the
\* immediate.  (The operands themselves are taken as the program renders
\* them: only their order is in question.)
C3_DestinationFirst ==
    Emitted =>
        LET p == insn_start
        IN  CASE FamilyAt(p) = "reg_mem" ->
                   LET reg == GetReg(RegFieldAt(p), WideAt(p))
                   IN  LastLine = IF DirectionAt(p)
                                  THEN Line(reg, RegMemOperandAt(p))
                                  ELSE Line(RegMemOperandAt(p), reg)
              [] FamilyAt(p) = "imm_reg" ->
                   LastLine = Line(GetReg(buffer[p + 1] % 8, WideAt(p)),
                                   ImmToRegDataAt(p))
              [] FamilyAt(p) = "imm_rm" ->
                   LastLine = Line(ImmToRMDstAt(p), ImmToRMSrcAt(p))

-----------------------------------------------------------------------------
(* C4 *)

\* The three bytes 8B 41 DB.
Listing8B41DB == <<139, 65, 219>>

\* What a run over 8B 41 DB must look like when its one line is `line`: it
\* never panics, and once the loop has taken the instruction the cursor is
\* at 3 and the output is the two header lines and `line`.
RunOf8B41DBPrints(line) ==
    buffer = Listing8B41DB =>
        /\ status # "panicked"
        /\ cursor \in {0, 3}
        /\ cursor = 3 => output = <<"; " \o input, "bits 16", line>>
        /\ status = "exited" => cursor = 3

\* C4 as amended: decoding 8B 41 DB emits exactly `MOV AX, [BX + DI - 37]`
\* and consumes all three bytes: the secondary byte 0x41 selects 8-bit
\* displacement, register field AX as destination, and r/m field 001, the
\* base expression `BX + DI`; 0xDB is rendered `- 37`.
C4_Listing8B41DB == RunOf8B41DBPrints("MOV AX, [BX + DI - 37]")

\* C4 as stated: the line is `MOV AX, [BX + SI - 37]`.
C4_AsStated == RunOf8B41DBPrints("MOV AX, [BX + SI - 37]")

\* The run over 8B 41 DB has ended, all three bytes taken, one line printed.
C4_Witness ==
    /\ buffer = Listing8B41DB
    /\ status = "exited"
    /\ cursor = 3
    /\ Len(output) = 3

-----------------------------------------------------------------------------
(* C5 *)

\* The displacement of the register/memory to/from register instruction
\* at p.
RegMemDispAt(p) ==
    IF ModeAt(p) = 1
    THEN Signed8(buffer[p + 3])
    ELSE Signed16(buffer[p + 3], buffer[p + 4])

\* C5: a memory operand with a displacement d is `[base]` for d = 0,
\* `[base + d]` for d > 0 and `[base - |d|]` for d < 0, over the whole signed
\* range of the displacement's width, and rendering never fails.  Stated of
\* the register/memory to/from register family, whose displacement value is
\* the signed value of its bytes: a whole instruction with a displacement
\* is rendered, with the operand worded so.
C5_DisplacementRendering ==
    LET p == insn_start
    IN  Stepped /\ CompleteAt(p) /\ FamilyAt(p) = "reg_mem" /\ ModeAt(p) \in {1, 2} =>
            /\ status # "panicked"
            /\ LET reg == GetReg(RegFieldAt(p), WideAt(p))
                   mem == SpecDispText(GetDispRegisters(RmFieldAt(p)), RegMemDispAt(p))
               IN  LastLine = IF DirectionAt(p) THEN Line(reg, mem) ELSE Line(mem, reg)

-----------------------------------------------------------------------------
(* C6 *)

\* `[A]`, A the unsigned 16-bit value of the two bytes after the secondary
\* byte of the instruction at p.
SpecDirectAddressAt(p) ==
    "[" \o FmtNat(Unsigned16(buffer[p + 3], buffer[p + 4])) \o "]"

\* C6: under no-displacement with r/m = 110 the memory operand is `[A]`, A
\* the unsigned value lo + 256 * hi of the two bytes right after the
\* secondary byte, any immediate coming after them; for every other r/m
\* under no-displacement no address bytes are consumed.  (Register names
\* and immediates are taken as the program renders them.)
C6_DirectAddress ==
    LET p == insn_start
    IN  Emitted /\ CompleteAt(p) /\ FamilyAt(p) \in {"reg_mem", "imm_rm"} /\ ModeAt(p) = 0 =>
            IF RmFieldAt(p) = 6
            THEN IF FamilyAt(p) = "reg_mem"
                 THEN LET reg == GetReg(RegFieldAt(p), WideAt(p))
                      IN  LastLine = IF DirectionAt(p)
                                     THEN Line(reg, SpecDirectAddressAt(p))
                                     ELSE Line(SpecDirectAddressAt(p), reg)
                 ELSE LastLine = Line(SpecDirectAddressAt(p),
                                      ImmToRMData(WideAt(p), p + 4))
            ELSE cursor = p + 2 + (IF FamilyAt(p) = "imm_rm" THEN SpecImmBytes(p) ELSE 0)

-----------------------------------------------------------------------------
(* C7 *)

\* The immediate of the instruction at p: its first byte's offset, and its
\* value as a signed number of its width.
ImmOffsetAt(p) == p + SpecLen(p) - SpecImmBytes(p)
SpecImmAt(p) ==
    IF WideAt(p)
    THEN Signed16(buffer[ImmOffsetAt(p) + 1], buffer[ImmOffsetAt(p) + 2])
    ELSE Signed8(buffer[ImmOffsetAt(p) + 1])

\* C7: in both immediate families the displayed immediate is the sign
\* extension of its byte (width = byte) or the signed 16-bit value of its
\* two bytes, low byte first (width = word), and one byte, or two, are
\* consumed.  (The other operand, the operand order and the size qualifier
\* are taken as the program renders them; the direct-address form of
\* immediate-to-register/memory, where the program takes the immediate from
\* other bytes, is left to C6.)
C7_ImmediateValue ==
    LET p == insn_start
    IN  Emitted /\ CompleteAt(p) =>
            CASE FamilyAt(p) = "imm_reg" ->
                   /\ cursor = p + 1 + SpecImmBytes(p)
                   /\ LastLine = Line(FmtInt(SpecImmAt(p)),
                                      GetReg(buffer[p + 1] % 8, WideAt(p)))
              [] FamilyAt(p) = "imm_rm" /\ ~(ModeAt(p) = 0 /\ RmFieldAt(p) = 6) ->
                   /\ cursor = ImmOffsetAt(p) + SpecImmBytes(p)
                   /\ LastLine = Line(ImmToRMDstAt(p),
                                      (IF WideAt(p) THEN "WORD " ELSE "BYTE ")
                                          \o FmtInt(SpecImmAt(p)))
              [] OTHER -> TRUE

-----------------------------------------------------------------------------
(* C8 *)

\* C8: a first byte goes to a family decoder exactly when its top six bits
\* are 100010, 101100..101111 or 110001.  For any other first byte the step
\* ends in an error value, not a panic, with that one byte consumed, no
\* line emitted for it and the earlier lines kept.
C8_UnsupportedOpcodeIsAnErrorValue ==
    [][status = "loop" /\ cursor < Len(buffer) =>
           /\ DecodeRegMemToFromReg <=> FamilyAt(cursor) = "reg_mem"
           /\ DecodeImmToReg <=> FamilyAt(cursor) = "imm_reg"
           /\ DecodeImmToRM <=> FamilyAt(cursor) = "imm_rm"
           /\ FamilyAt(cursor) = "none" =>
                  /\ status' # "panicked"
                  /\ cursor' = cursor + 1
                  /\ output' = output]_vars

-----------------------------------------------------------------------------
(* C9 *)

RECURSIVE InstructionsFrom(_)
\* The number of instructions of a buffer that is whole supported
\* instructions from offset p to its end, or -1 when it is not.
InstructionsFrom(p) ==
    IF p = Len(buffer) THEN 0
    ELSE IF ~CompleteAt(p) THEN -1
    ELSE LET rest == InstructionsFrom(p + SpecLen(p))
         IN  IF rest < 0 THEN -1 ELSE 1 + rest

RECURSIVE WholeWithin(_, _)
\* The number of consecutive whole supported instructions from offset p
\* that end at or before offset `limit`.
WholeWithin(p, limit) ==
    IF p < Len(buffer) /\ CompleteAt(p) /\ p + SpecLen(p) <= limit
    THEN 1 + WholeWithin(p + SpecLen(p), limit)
    ELSE 0

\* The line the program's decoder for the instruction at p prints.
DecoderLineAt(p) ==
    CASE FamilyAt(p) = "reg_mem" -> MovRegMemToFromReg(buffer[p + 1], p + 1).line
      [] FamilyAt(p) = "imm_reg" -> MovImmToReg(buffer[p + 1], p + 1).line
      [] FamilyAt(p) = "imm_rm" -> MovImmToRM(buffer[p + 1], p + 1).line

RECURSIVE LinesFrom(_)
\* The decoders' lines for the whole instructions from offset p on.
LinesFrom(p) ==
    IF p < Len(buffer) /\ CompleteAt(p)
    THEN <<DecoderLineAt(p)>> \o LinesFrom(p + SpecLen(p))
    ELSE <<>>

\* C9: over a buffer that is n whole supported instructions the run ends
\* with the cursor at the end of the buffer, having emitted the comment
\* line naming the input, `bits 16`, and exactly n instruction lines, the
\* i-th the line of the i-th instruction; in every run there are never more
\* instruction lines than instructions whose bytes have all been consumed.
C9_OneLinePerInstruction ==
    /\ file_exists /\ status # "start" =>
            Len(output) - 2 <= WholeWithin(0, cursor)
    /\ file_exists /\ InstructionsFrom(0) >= 0 /\ status \in {"exited", "panicked"} =>
            /\ status = "exited"
            /\ cursor = Len(buffer)
            /\ Len(output) = 2 + InstructionsFrom(0)
            /\ output = <<"; " \o input, "bits 16">> \o LinesFrom(0)

-----------------------------------------------------------------------------
(* C10 *)

\* C10: under 16-bit displacement the displacement rendered is the signed
\* 16-bit value of lo + 256 * hi, in the immediate-to-register/memory family
\* as in the register/memory to/from register family.  (The rendering of
\* that value, the immediate and the register are taken as the program
\* renders them.)
C10_Displacement16 ==
    LET p == insn_start
    IN  Emitted /\ CompleteAt(p) /\ FamilyAt(p) \in {"reg_mem", "imm_rm"} /\ ModeAt(p) = 2 =>
            LET d == Signed16(buffer[p + 3], buffer[p + 4])
                mem == GetDispWord(GetDispRegisters(RmFieldAt(p)), d).text
                reg == GetReg(RegFieldAt(p), WideAt(p))
            IN  IF FamilyAt(p) = "reg_mem"
                THEN LastLine = IF DirectionAt(p) THEN Line(reg, mem) ELSE Line(mem, reg)
                ELSE LastLine = Line(mem, ImmToRMData(WideAt(p), p + 4))

=============================================================================
